---------------------------- MODULE Spec2Model ----------------------------
(***************************************************************************)
(* McCabe-Thiele staircase construction of McCabeThiele.py.                *)
(*                                                                         *)
(* Numbers.  The program computes in IEEE double precision (Python floats  *)
(* and numpy float64).  A float is modelled as a fixed-point integer: the  *)
(* integer v stands for v / SCALE.  Three values outside the finite range  *)
(* stand for +inf, -inf and NaN, with the IEEE rules the program relies on *)
(* (x/0 = +-inf, 0/0 = NaN, sqrt of a negative = NaN, every comparison     *)
(* with NaN false).  numpy never raises on these: np.sqrt returns a        *)
(* float64, so every later division is a float64 division.  Mul, Div and   *)
(* Sqrt round to nearest, as the IEEE operations do, so that sqrt(b*b) is  *)
(* |b| as it is for doubles.                                               *)
(***************************************************************************)
EXTENDS Integers, Sequences, FiniteSets

SCALE == 1000            \* fixed-point unit: 1.0 is SCALE
MaxFinite == 1000000000  \* largest finite magnitude of the fixed-point range

One == SCALE
PInf == MaxFinite + 1
NInf == -PInf
NaN == MaxFinite + 2

IsNaN(v) == v = NaN
IsInf(v) == v = PInf \/ v = NInf
IsFinite(v) == ~IsNaN(v) /\ ~IsInf(v)

Abs(v) == IF v < 0 THEN -v ELSE v
Sign(v) == IF v < 0 THEN -1 ELSE IF v > 0 THEN 1 ELSE 0
Clamp(v) == IF v > MaxFinite THEN PInf ELSE IF v < -MaxFinite THEN NInf ELSE v
Signed(s, m) == IF s < 0 THEN Clamp(-m) ELSE Clamp(m)

(* Every operation below takes its operands by value: each binds its       *)
(* operands once (z \in {<<a, b>>}), as Python evaluates the operands of   *)
(* an operator before applying it.                                         *)

(* Python's comparison operators on floats: false when an operand is NaN. *)
GtV(a, b) == ~IsNaN(a) /\ ~IsNaN(b) /\ a > b
LeV(a, b) == ~IsNaN(a) /\ ~IsNaN(b) /\ a <= b
LtV(a, b) == ~IsNaN(a) /\ ~IsNaN(b) /\ a < b
Gt(a, b) == \E z \in {<<a, b>>} : GtV(z[1], z[2])
Le(a, b) == \E z \in {<<a, b>>} : LeV(z[1], z[2])
Lt(a, b) == \E z \in {<<a, b>>} : LtV(z[1], z[2])

NegV(a) == IF IsNaN(a) THEN NaN ELSE -a
Neg(a) == CHOOSE r \in {NegV(z) : z \in {a}} : TRUE

AddV(a, b) ==
    IF IsNaN(a) \/ IsNaN(b) THEN NaN
    ELSE IF IsInf(a) /\ IsInf(b) THEN (IF a = b THEN a ELSE NaN)
    ELSE IF IsInf(a) THEN a
    ELSE IF IsInf(b) THEN b
    ELSE Clamp(a + b)

Add(a, b) == CHOOSE r \in {AddV(z[1], z[2]) : z \in {<<a, b>>}} : TRUE
Sub(a, b) == CHOOSE r \in {AddV(z[1], NegV(z[2])) : z \in {<<a, b>>}} : TRUE

(* |a| * |b| / SCALE rounded to nearest, split so that no intermediate     *)
(* product leaves the 32-bit integers.                                     *)
MulMag(m, n) ==
    LET mh == m \div SCALE
        ml == m % SCALE
        nh == n \div SCALE
        nl == n % SCALE
    IN  IF mh > 0 /\ nh > (MaxFinite \div SCALE) \div mh THEN PInf
        ELSE mh * nh * SCALE + mh * nl + ml * nh
             + ((ml * nl + SCALE \div 2) \div SCALE)

MulV(a, b) ==
    IF IsNaN(a) \/ IsNaN(b) THEN NaN
    ELSE IF IsInf(a) \/ IsInf(b)
         THEN (IF a = 0 \/ b = 0 THEN NaN
               ELSE IF Sign(a) * Sign(b) > 0 THEN PInf ELSE NInf)
    ELSE Signed(Sign(a) * Sign(b), MulMag(Abs(a), Abs(b)))

Mul(a, b) == CHOOSE r \in {MulV(z[1], z[2]) : z \in {<<a, b>>}} : TRUE

(* |a| / |b| in fixed point, b # 0, rounded to nearest (long division).    *)
DivMag(m, n) ==
    LET qd == m \div n
        r  == m % n
        fr == IF n <= MaxFinite \div SCALE
              THEN (r * SCALE + n \div 2) \div n
              ELSE r \div (n \div SCALE)
    IN  IF qd > MaxFinite \div SCALE THEN PInf ELSE qd * SCALE + fr

(* Float division as numpy performs it: x/0 is an infinity, 0/0 is NaN.    *)
DivV(a, b) ==
    IF IsNaN(a) \/ IsNaN(b) THEN NaN
    ELSE IF IsInf(a) THEN (IF IsInf(b) THEN NaN
                           ELSE IF Sign(a) * Sign(b) < 0 THEN NInf ELSE PInf)
    ELSE IF IsInf(b) THEN 0
    ELSE IF b = 0 THEN (IF a = 0 THEN NaN ELSE IF a > 0 THEN PInf ELSE NInf)
    ELSE Signed(Sign(a) * Sign(b), DivMag(Abs(a), Abs(b)))

Div(a, b) == CHOOSE r \in {DivV(z[1], z[2]) : z \in {<<a, b>>}} : TRUE

RECURSIVE ISqrtB(_, _, _)
(* The integer r in lo .. hi-1 with r*r <= n < (r+1)*(r+1), by bisection.  *)
ISqrtB(n, lo, hi) ==
    IF hi - lo <= 1 THEN lo
    ELSE LET mid == (lo + hi) \div 2
         IN  IF mid * mid <= n THEN ISqrtB(n, mid, hi) ELSE ISqrtB(n, lo, mid)

RSqrt(n) == CHOOSE s \in {(IF n - r * r > r THEN r + 1 ELSE r) : r \in {ISqrtB(n, 0, 46341)}} : TRUE

(* np.sqrt: NaN for a negative argument (a RuntimeWarning, no exception).  *)
SqrtV(v) ==
    IF IsNaN(v) THEN NaN
    ELSE IF v < 0 THEN NaN
    ELSE IF v = PInf THEN PInf
    ELSE IF v <= 2 * SCALE * SCALE THEN RSqrt(v * SCALE)
    ELSE 100 * RSqrt(v \div 10)

Sqrt(v) == CHOOSE r \in {SqrtV(z) : z \in {v}} : TRUE

Num(n) == n * SCALE      \* the integer literal n as a float

-----------------------------------------------------------------------------
(* Lines 22-41.  eq: vapour composition on the efficiency-corrected curve. *)
eq_ideal(xa, relative_volatility) ==
    Div(Mul(relative_volatility, xa), Add(One, Mul(Sub(relative_volatility, One), xa)))

eq(xa, relative_volatility, eta) ==
    CHOOSE r \in {Add(Mul(Sub(z[2], z[1]), z[3]), z[1]) :
                  z \in {<<xa, eq_ideal(xa, relative_volatility), eta>>}} : TRUE

(* Lines 60-62: the coefficients of eq2's quadratic (c is ya). *)
eq2_a(relative_volatility, eta) ==
    Add(Sub(Sub(Mul(relative_volatility, eta), eta), relative_volatility), One)

eq2_b(ya, relative_volatility, eta) ==
    Sub(Sub(Add(Sub(Mul(ya, relative_volatility), ya), eta), One),
        Mul(relative_volatility, eta))

(* Line 63: the root (-b - sqrt(b^2 - 4ac)) / (2a). *)
Discriminant(a, b, c) == Sub(Mul(b, b), Mul(Mul(Num(4), a), c))
RootMinus(a, b, c) == Div(Sub(Neg(b), Sqrt(Discriminant(a, b, c))), Mul(Num(2), a))
RootPlus(a, b, c) == Div(Add(Neg(b), Sqrt(Discriminant(a, b, c))), Mul(Num(2), a))

eq2_disc(ya, relative_volatility, eta) ==
    CHOOSE r \in {Discriminant(eq2_a(z[2], z[3]), eq2_b(z[1], z[2], z[3]), z[1]) :
                  z \in {<<ya, relative_volatility, eta>>}} : TRUE

(* Lines 43-65.  eq2: the inverse of eq. *)
eq2(ya, relative_volatility, eta) ==
    CHOOSE r \in {RootMinus(c[1], c[2], c[3]) :
                  c \in {<<eq2_a(relative_volatility, eta),
                           eq2_b(ya, relative_volatility, eta), ya>>}} : TRUE

-----------------------------------------------------------------------------
(* The state: the module-level nm (line 259), the arguments and locals of  *)
(* McCabeThiele, and the staircase segments handed to plt.plot.            *)
VARIABLES
    pc,                  \* position in McCabeThiele
    nm_module,           \* the module-level name nm, read by the stepping functions
    PaVap, PbVap, R_factor, xf, xd, xb, q, nm,   \* the eight arguments
    relative_volatility, q_eqX, q_eqy, R_min, R, theta, ESOL_q_x, ESOL_q_y,
    x1, x2, y1, y2, step_count, feed_stage, xb_actual, stages,
    points,              \* the steps drawn so far, in order
    rt                   \* operands and results of an eq / eq2 round trip

argVars == <<nm_module, PaVap, PbVap, R_factor, xf, xd, xb, nm>>
geomVars == <<relative_volatility, q_eqX, q_eqy, R_min, R, theta, ESOL_q_x, ESOL_q_y>>
stepVars == <<x1, x2, y1, y2, step_count, points>>
resultVars == <<feed_stage, xb_actual, stages>>
vars == <<pc, q, argVars, geomVars, stepVars, resultVars, rt>>

(* Bounds of the model. *)
MaxSteps == 60   \* step_count and the list of drawn steps stop growing here

(* The nudge 0.00000001 of lines 142 and 144.  It is below the fixed-point *)
(* unit, so the model nudges by the smallest amount that keeps 1/(1-q)     *)
(* inside the fixed-point range: 0.01.                                     *)
Eps == 10

(* Inputs.  Compositions satisfy 0 < xb < xf < xd < 1. *)
VapourPressures == {<<1792, 743>>, <<2000, 1000>>}
RFactors == {500, 1300, 2000}
Compositions == {<<25, 500, 975>>, <<450, 500, 700>>, <<100, 500, 900>>}
FeedQualities == {-1000, 0, 500, 1000, 1500}
Efficiencies == {500, 750, 1000}

-----------------------------------------------------------------------------
(* Lines 141-144: the q guard. *)
Guard(qq) ==
    CHOOSE r \in {(IF q1 = 0 THEN Add(q1, Eps) ELSE q1) :
                  q1 \in {IF qq = One THEN Sub(qq, Eps) ELSE qq}} : TRUE

(* Lines 158-160: the quadratic of the q-line / equilibrium intersection. *)
qline_a(al, qq, eta) ==
    Sub(Add(Sub(Add(Sub(Div(Mul(al, qq), Sub(qq, One)), al), Mul(al, eta)),
                Div(qq, Sub(qq, One))), One), eta)

qline_b(al, qq, eta, zf) ==
    Sub(Sub(Add(Add(Sub(Div(qq, Sub(qq, One)), One), eta),
                Div(Mul(al, zf), Sub(One, qq))),
            Div(zf, Sub(One, qq))),
        Mul(al, eta))

qline_c(qq, zf) == Div(zf, Sub(One, qq))

(* Lines 162-165: the root is chosen by the sign of q - 1. *)
qline_root(al, qq, eta, zf) ==
    CHOOSE r \in {(IF GtV(c[4], One) THEN RootPlus(c[1], c[2], c[3])
                   ELSE RootMinus(c[1], c[2], c[3])) :
                  c \in {<<qline_a(al, qq, eta), qline_b(al, qq, eta, zf),
                           qline_c(qq, zf), qq>>}} : TRUE

(* Lines 170-173. *)
ThetaMin(xD, qx, qy) == Mul(xD, Sub(One, Div(Sub(xD, qy), Sub(xD, qx))))
RMin(xD, qx, qy) == Sub(Div(xD, ThetaMin(xD, qx, qy)), One)
Theta(xD, r) == Div(xD, Add(r, One))

(* Lines 175-177: where the ESOL meets the q-line. *)
ESOL_q_den(qq, xD, th) == Sub(Div(qq, Sub(qq, One)), Div(Sub(xD, th), xD))
ESOLqx(qq, zf, xD, th) == Div(Sub(th, Div(zf, Sub(One, qq))), ESOL_q_den(qq, xD, th))
ESOLqy(ex, xD, th) == Add(Mul(ex, Div(Sub(xD, th), xD)), th)

(* Lines 67-89.  The efficiency is the module-level nm, not an argument. *)
stepping_ESOL(a1, b1, rv, r, xD) ==
    CHOOSE p \in {[line |-> "ESOL", x1 |-> a1, x2 |-> a2, y1 |-> b1,
                   y2 |-> Add(Div(Mul(r, a2), Add(r, One)), Div(xD, Add(r, One))),
                   eta |-> nm_module] :
                  a2 \in {eq2(b1, rv, nm_module)}} : TRUE

(* Lines 91-117.  The efficiency is the module-level nm, not an argument. *)
stepping_SSOL(a1, b1, rv, ex, ey, xB) ==
    CHOOSE p \in {[line |-> "SSOL", x1 |-> a1, x2 |-> a2, y1 |-> b1,
                   y2 |-> Add(Mul(m, a2), Sub(ey, Mul(m, ex))),
                   eta |-> nm_module] :
                  a2 \in {eq2(b1, rv, nm_module)},
                  m \in {Div(Sub(xB, ey), Sub(xB, ex))}} : TRUE

(* step_count += 1.  Python integers are unbounded; the model stops at MaxSteps. *)
Increment(n) == IF n < MaxSteps THEN n + 1 ELSE n

(* The plt.plot calls of one step; kept for the first MaxSteps steps. *)
Plot(ps, p) == IF Len(ps) < MaxSteps THEN Append(ps, p) ELSE ps

(* Line 205: feed_stage=step_count. *)
FeedStage_BeforeTrigger(n) == n - 1
FeedStage(n) == n

(* Line 222: stages=step_count-1. *)
Stages_LessTwo(n) == n - 2
Stages(n) == n - 1

NoRoundTrip == [xa |-> 0, relative_volatility |-> 0, eta |-> 0, ya |-> 0, back |-> 0]

-----------------------------------------------------------------------------
(* The state at the call of line 262, for any arguments and any module-level nm. *)
Init ==
    /\ pc = "setup"
    /\ nm_module \in Efficiencies
    /\ \E vp \in VapourPressures : PaVap = vp[1] /\ PbVap = vp[2]
    /\ R_factor \in RFactors
    /\ \E cs \in Compositions : xb = cs[1] /\ xf = cs[2] /\ xd = cs[3]
    /\ q \in FeedQualities
    /\ nm \in Efficiencies
    /\ relative_volatility = 0 /\ q_eqX = 0 /\ q_eqy = 0 /\ R_min = 0 /\ R = 0
    /\ theta = 0 /\ ESOL_q_x = 0 /\ ESOL_q_y = 0
    /\ x1 = 0 /\ x2 = 0 /\ y1 = 0 /\ y2 = 0 /\ step_count = 0 /\ points = <<>>
    /\ feed_stage = 0 /\ xb_actual = 0 /\ stages = 0
    /\ rt = NoRoundTrip

(* Lines 140-177: the q guard and the geometry of the operating lines. *)
Setup ==
    /\ pc = "setup"
    /\ \E qg \in {Guard(q)}, al \in {Div(PaVap, PbVap)} :
       \E qx \in {qline_root(al, qg, nm, xf)} :
       \E qy \in {eq(qx, al, nm)} :
       \E rm \in {RMin(xd, qx, qy)} :
       \E r \in {Mul(R_factor, rm)} :
       \E th \in {Theta(xd, r)} :
       \E ex \in {ESOLqx(qg, xf, xd, th)} :
           /\ q' = qg
           /\ relative_volatility' = al
           /\ q_eqX' = qx
           /\ q_eqy' = qy
           /\ R_min' = rm
           /\ R' = r
           /\ theta' = th
           /\ ESOL_q_x' = ex
           /\ ESOL_q_y' = ESOLqy(ex, xd, th)
    /\ pc' = "first_step"
    /\ UNCHANGED <<argVars, stepVars, resultVars, rt>>

(* Lines 193-197: the first step, from (xd, xd) on the ESOL. *)
FirstESOL ==
    /\ pc = "first_step"
    /\ \E p \in {stepping_ESOL(xd, xd, relative_volatility, R, xd)} :
           /\ x1' = p.x1 /\ x2' = p.x2 /\ y1' = p.y1 /\ y2' = p.y2
           /\ points' = Plot(points, p)
    /\ step_count' = 1
    /\ pc' = "RECTIFYING"
    /\ UNCHANGED <<q, argVars, geomVars, resultVars, rt>>

(* Lines 198-203: one iteration of the loop "while x2 > ESOL_q_x". *)
LoopESOL ==
    /\ pc = "RECTIFYING"
    /\ Gt(x2, ESOL_q_x)
    /\ \E p \in {stepping_ESOL(x2, y2, relative_volatility, R, xd)} :
           /\ x1' = p.x1 /\ x2' = p.x2 /\ y1' = p.y1 /\ y2' = p.y2
           /\ points' = Plot(points, p)
    /\ step_count' = Increment(step_count)
    /\ UNCHANGED <<pc, q, argVars, geomVars, resultVars, rt>>

(* Lines 205-211: the loop condition fails; the feed stage is recorded and *)
(* the first SSOL step is taken from (x1, y1).                             *)
Switch ==
    /\ pc = "RECTIFYING"
    /\ ~Gt(x2, ESOL_q_x)
    /\ feed_stage' = FeedStage(step_count)
    /\ \E p \in {stepping_SSOL(x1, y1, relative_volatility, ESOL_q_x, ESOL_q_y, xb)} :
           /\ x1' = p.x1 /\ x2' = p.x2 /\ y1' = p.y1 /\ y2' = p.y2
           /\ points' = Plot(points, p)
    /\ step_count' = Increment(step_count)
    /\ pc' = "STRIPPING"
    /\ UNCHANGED <<q, argVars, geomVars, xb_actual, stages, rt>>

(* Lines 212-219: one iteration of the loop "while x2 > xb". *)
LoopSSOL ==
    /\ pc = "STRIPPING"
    /\ Gt(x2, xb)
    /\ \E p \in {stepping_SSOL(x2, y2, relative_volatility, ESOL_q_x, ESOL_q_y, xb)} :
           /\ x1' = p.x1 /\ x2' = p.x2 /\ y1' = p.y1 /\ y2' = p.y2
           /\ points' = Plot(points, p)
    /\ step_count' = Increment(step_count)
    /\ UNCHANGED <<pc, q, argVars, geomVars, resultVars, rt>>

(* Lines 220-222: the loop condition fails; the results are reported. *)
Finish ==
    /\ pc = "STRIPPING"
    /\ ~Gt(x2, xb)
    /\ xb_actual' = x2
    /\ stages' = Stages(step_count)
    /\ pc' = "DONE"
    /\ UNCHANGED <<q, argVars, geomVars, stepVars, feed_stage, rt>>

Next ==
    \/ Setup
    \/ FirstESOL
    \/ LoopESOL
    \/ Switch
    \/ LoopSSOL
    \/ Finish

Spec == Init /\ [][Next]_vars

(* McCabeThiele is one sequential call: it keeps running while a statement *)
(* remains to be executed.                                                 *)
FairSpec == Spec /\ WF_vars(Next)

-----------------------------------------------------------------------------
(* eq followed by eq2 on one liquid composition: the use eq2's docstring   *)
(* (lines 44-58) describes, "the inverse of eq(...) above".                *)
LiquidCompositions == {50, 100, 200, 300, 400, 500, 600, 700, 800, 900, 950}
Volatilities == {1500, 2000, 2412, 3000}
MurphreeEfficiencies == {250, 500, 750, 1000}
RoundTripTol == SCALE \div 200

InitRT ==
    /\ pc = "rt_eq"
    /\ rt \in [xa : LiquidCompositions, relative_volatility : Volatilities,
               eta : MurphreeEfficiencies, ya : {0}, back : {0}]
    /\ nm_module = 0 /\ PaVap = 0 /\ PbVap = 0 /\ R_factor = 0
    /\ xf = 0 /\ xd = 0 /\ xb = 0 /\ q = 0 /\ nm = 0
    /\ relative_volatility = 0 /\ q_eqX = 0 /\ q_eqy = 0 /\ R_min = 0 /\ R = 0
    /\ theta = 0 /\ ESOL_q_x = 0 /\ ESOL_q_y = 0
    /\ x1 = 0 /\ x2 = 0 /\ y1 = 0 /\ y2 = 0 /\ step_count = 0 /\ points = <<>>
    /\ feed_stage = 0 /\ xb_actual = 0 /\ stages = 0

ApplyEq ==
    /\ pc = "rt_eq"
    /\ rt' = [rt EXCEPT !.ya = eq(rt.xa, rt.relative_volatility, rt.eta)]
    /\ pc' = "rt_eq2"
    /\ UNCHANGED <<q, argVars, geomVars, stepVars, resultVars>>

ApplyEq2 ==
    /\ pc = "rt_eq2"
    /\ rt' = [rt EXCEPT !.back = eq2(rt.ya, rt.relative_volatility, rt.eta)]
    /\ pc' = "rt_done"
    /\ UNCHANGED <<q, argVars, geomVars, stepVars, resultVars>>

NextRT ==
    \/ ApplyEq
    \/ ApplyEq2

SpecRT == InitRT /\ [][NextRT]_vars

-----------------------------------------------------------------------------
(* Vocabulary of the properties. *)
Steps == 1 .. Len(points)
ESOLSteps == {i \in Steps : points[i].line = "ESOL"}
SSOLSteps == {i \in Steps : points[i].line = "SSOL"}
Reported == pc = "DONE" /\ step_count < MaxSteps   \* results of a run the model counted in full
Switched == pc \in {"STRIPPING", "DONE"}
FirstAtOrBelow(i, level) ==
    /\ Le(points[i].x2, level)
    /\ \A j \in 1 .. i - 1 : ~Le(points[j].x2, level)
ValidInputs ==
    /\ Gt(relative_volatility, One)
    /\ Gt(nm, 0) /\ Le(nm, One)
    /\ Gt(xb, 0) /\ Lt(xb, xf) /\ Lt(xf, xd) /\ Lt(xd, One)

-----------------------------------------------------------------------------
(* C1: for every parameter set the construction stops after a bounded      *)
(* number of steps: it reaches DONE or fails with NumericalDivergence, and *)
(* never iterates for ever in the RECTIFYING or the STRIPPING loop.        *)
C1_Terminates == <>(pc \in {"DONE", "NumericalDivergence"})

C3_SwitchAtFirstCrossing ==
    /\ Len(points) >= 1 =>
           /\ points[1].line = "ESOL"
           /\ points[1].x1 = xd /\ points[1].y1 = xd
    /\ \A i \in ESOLSteps : \A j \in SSOLSteps : i < j
    /\ pc = "RECTIFYING" => \A i \in 1 .. Len(points) - 1 : Gt(points[i].x2, ESOL_q_x)
    /\ Switched /\ step_count < MaxSteps =>
           /\ feed_stage >= 1
           /\ feed_stage = Cardinality(ESOLSteps)
           /\ FirstAtOrBelow(feed_stage, ESOL_q_x)
           /\ \A i \in 1 .. feed_stage - 1 : Gt(points[i].x2, ESOL_q_x)

(* C4: for inputs with xb < ESOL_q_x the construction is DONE the first    *)
(* time a step has x2 <= xb: no step follows a step whose x2 <= xb,        *)
(* xb_actual is the x2 of that step, so xb_actual <= xb, and every earlier *)
(* step had x2 > xb.                                                       *)
C4_DoneAtFirstCrossing ==
    Lt(xb, ESOL_q_x) =>
        /\ \A i \in 1 .. Len(points) - 1 : Gt(points[i].x2, xb)
        /\ Reported =>
               /\ xb_actual = points[Len(points)].x2
               /\ Le(xb_actual, xb)

(* C5: in every terminating run the reported stage count is a non-negative *)
(* integer and the reported feed stage is at most the stage count.         *)
C5_FeedStageWithinStages ==
    Reported =>
        /\ stages \in Nat
        /\ feed_stage \in Nat
        /\ feed_stage <= stages

C5_Witness ==
    /\ Reported
    /\ Le(points[feed_stage].x2, xb)
    /\ feed_stage = stages
    /\ feed_stage > 1

(* C6: eq2(eq(x, alpha, eta), alpha, eta) returns x up to tolerance, for   *)
(* every x in (0,1), alpha > 1 and eta in (0,1], eta = 1 included.         *)
C6_RoundTrip ==
    pc = "rt_done" =>
        /\ IsFinite(rt.back)
        /\ Abs(rt.back - rt.xa) <= RoundTripTol

(* C7: when a step evaluates eq2 with leading coefficient 0 or a negative  *)
(* discriminant the computation fails with a DomainError; eq2 returns no   *)
(* NaN or infinite composition that the next step would take up.           *)
C7_DomainErrorNotNaN ==
    \A i \in Steps :
        /\ IsFinite(points[i].x2)
        /\ (eq2_a(relative_volatility, points[i].eta) = 0
            \/ Lt(eq2_disc(points[i].y1, relative_volatility, points[i].eta), 0))
               => pc = "DomainError"

(* C8: the staircase depends on the eight arguments alone: every ESOL and  *)
(* SSOL step inverts the equilibrium relation with the nm passed as        *)
(* argument, whatever the module-level state is.                           *)
C8_StepsUseArgument ==
    \A i \in Steps :
        /\ points[i].eta = nm
        /\ points[i].x2 = eq2(points[i].y1, relative_volatility, nm)

(* C9: for alpha > 1 and R > R_min every step after the first, the first   *)
(* STRIPPING step included, produces an x2 strictly smaller than the x2 of *)
(* the step before it.  Stated for the runs in which the module-level nm  *)
(* equals the argument and every drawn composition is finite.              *)
C9_StrictDecrease ==
    /\ ValidInputs /\ Gt(R_min, 0) /\ Gt(R, R_min)
    /\ nm_module = nm
    /\ \A i \in Steps : IsFinite(points[i].x2)
    =>  \A i \in 2 .. Len(points) : Lt(points[i].x2, points[i - 1].x2)

(* C10: the guard replaces q = 1 by 1 - eps and q = 0 by eps and leaves    *)
(* every other q alone, and after it no denominator of the q-line /        *)
(* equilibrium quadratic (q - 1, 1 - q, 2a) or of the ESOL / q-line        *)
(* intersection is zero, for every finite q and valid other inputs.        *)
C10_GuardAndDenominators ==
    [][pc = "setup" /\ Gt(Div(PaVap, PbVap), One) =>
          /\ q' = (IF q = One THEN One - Eps ELSE IF q = 0 THEN Eps ELSE q)
          /\ Sub(q', One) # 0
          /\ Sub(One, q') # 0
          /\ Mul(Num(2), qline_a(relative_volatility', q', nm)) # 0
          /\ ESOL_q_den(q', xd, theta') # 0]_vars

=============================================================================
